---- MODULE Spec2Model ----
(***************************************************************************)
(* Model of the extcap application facade (App.Run) and its mode           *)
(* dispatcher (App.mainAction), src/application.go.                        *)
(*                                                                         *)
(* One behaviour is one process invocation: Run builds the flag schema,    *)
(* the flag layer parses the command line, mainAction selects one mode by  *)
(* flag presence and calls the caller's callbacks, Run reports the         *)
(* outcome.  Callback results are inputs, drawn from small sets.           *)
(***************************************************************************)
EXTENDS Integers, Sequences, FiniteSets, TLC

(* ------------------------------ bounds -------------------------------- *)

\* longest sequence of interfaces GetInterfaces returns
MaxIfaces == 2
\* longest sequence of options GetConfigOptions returns
MaxOpts == 2

(* ----------------------------- constants ------------------------------ *)

\* a flag that does not occur on the command line
Absent == "<absent>"

\* an error value is the chain of its messages, outermost first; the nil
\* error is the empty chain
NilErr == <<>>
ErrNoInterfaceSpecified == <<"no interface specified">>
ErrNoPipeProvided == <<"no FIFO pipe provided">>

\* typed flag values (flag.Getter.Get() yields string, bool or int)
StrV(s) == <<"string", s>>
BoolV(b) == <<"bool", b>>
IntV(n) == <<"int", n>>

\* the three flags mainAction keeps out of the options mapping
ExcludedNames == {"extcap-interface", "fifo", "extcap-capture-filter"}

\* app.Flags as assigned in Run: the fixed protocol flags, in source order
StaticFlags ==
    << [Name |-> "extcap-version",        Type |-> "string", Required |-> FALSE, Value |-> StrV("")],
       [Name |-> "extcap-interfaces",     Type |-> "bool",   Required |-> FALSE, Value |-> BoolV(FALSE)],
       [Name |-> "extcap-dlts",           Type |-> "bool",   Required |-> FALSE, Value |-> BoolV(FALSE)],
       [Name |-> "extcap-interface",      Type |-> "string", Required |-> FALSE, Value |-> StrV("")],
       [Name |-> "extcap-config",         Type |-> "bool",   Required |-> FALSE, Value |-> BoolV(FALSE)],
       [Name |-> "capture",               Type |-> "bool",   Required |-> FALSE, Value |-> BoolV(FALSE)],
       [Name |-> "extcap-capture-filter", Type |-> "string", Required |-> FALSE, Value |-> StrV("")],
       [Name |-> "fifo",                  Type |-> "string", Required |-> FALSE, Value |-> StrV("")] >>

(* ------------------------ configuration options ----------------------- *)

\* ConfigOption values a caller may declare; variant "selector" stands for
\* any variant other than *ConfigStringOpt, *ConfigBoolOpt, *ConfigIntegerOpt
OptVerboseBool == [variant |-> "bool",     call |-> "verbose", required |-> FALSE, defaultValue |-> BoolV(FALSE)]
OptVerboseReq  == [variant |-> "bool",     call |-> "verbose", required |-> TRUE,  defaultValue |-> BoolV(FALSE)]
OptVerboseStr  == [variant |-> "string",   call |-> "verbose", required |-> FALSE, defaultValue |-> StrV("off")]
OptVerboseInt  == [variant |-> "int",      call |-> "verbose", required |-> FALSE, defaultValue |-> IntV(3)]
OptSelector    == [variant |-> "selector", call |-> "mode",    required |-> FALSE, defaultValue |-> StrV("")]

SupportedVariants == {"string", "bool", "int"}

\* the cli.Flag Run appends for one supported option
OptionFlag(opt) ==
    [Name |-> opt.call, Type |-> opt.variant, Required |-> opt.required, Value |-> opt.defaultValue]

\* mutant: the type switch drops an unknown variant without a word
FirstUnsupported_Silent(opts) == 0

\* index of the first option whose variant the type switch does not know, 0 if none
FirstUnsupported(opts) ==
    LET bad == {i \in 1..Len(opts) : opts[i].variant \notin SupportedVariants}
    IN  IF bad = {} THEN 0 ELSE CHOOSE i \in bad : \A j \in bad : i <= j

\* app.Flags after the loop over GetAllConfigOptions() ran over the whole of opts
SchemaFlags(opts) ==
    StaticFlags \o [i \in 1..Len(opts) |-> OptionFlag(opts[i])]

(* --------------------------- the flag layer --------------------------- *)

Invalid == <<"invalid", "">>

\* strconv.ParseBool / strconv.ParseInt / the string flag, on the raw texts used here
ParseValue(type, raw) ==
    CASE type = "string" -> StrV(raw)
      [] type = "bool"   -> IF raw = "true" THEN BoolV(TRUE)
                            ELSE IF raw = "false" THEN BoolV(FALSE)
                            ELSE Invalid
      [] type = "int"    -> IF raw = "7" THEN IntV(7)
                            ELSE IF raw = "0" THEN IntV(0)
                            ELSE Invalid
      [] OTHER           -> Invalid

FlagNamesOf(fl) == {fl[i].Name : i \in 1..Len(fl)}

FlagNamed(fl, name) == fl[CHOOSE i \in 1..Len(fl) : fl[i].Name = name]

\* names that occur on the command line
Given(args) == {n \in DOMAIN args : args[n] # Absent}

ErrUndefinedFlag == <<"flag provided but not defined">>
ErrInvalidValue  == <<"invalid value for flag">>
ErrRequiredFlag  == <<"Required flag not set">>

\* outcome of parsing the command line against the schema: the error the
\* flag layer reports, or the nil error
ParseError(fl, args) ==
    LET given == Given(args)
        names == FlagNamesOf(fl)
    IN  IF given \ names # {} THEN ErrUndefinedFlag
        ELSE IF \E n \in given : ParseValue(FlagNamed(fl, n).Type, args[n]) = Invalid
             THEN ErrInvalidValue
        ELSE IF \E n \in names : FlagNamed(fl, n).Required /\ n \notin given
             THEN ErrRequiredFlag
        ELSE NilErr

\* the cli.Context handed to the action: which flags were set, and the value
\* of every flag of the schema (its default when not set)
ParseContext(fl, args) ==
    [set   |-> Given(args),
     value |-> [n \in FlagNamesOf(fl) |->
                   IF args[n] # Absent THEN ParseValue(FlagNamed(fl, n).Type, args[n])
                   ELSE FlagNamed(fl, n).Value]]

NoContext == [set |-> {}, value |-> <<>>]

\* mutant: a flag counts as set when its value is true or a non-empty text
IsSet_ByValue(c, name) ==
    /\ name \in DOMAIN c.value
    /\ \/ c.value[name] = <<"bool", TRUE>>
       \/ c.value[name][1] = "string" /\ c.value[name][2] # ""

\* ctx.IsSet(name)
IsSet(c, name) == name \in c.set

\* ctx.String(name): the flag's string value, "" when the flag is no string flag
String(c, name) ==
    IF name \in DOMAIN c.value /\ c.value[name][1] = "string" THEN c.value[name][2] ELSE ""

\* ctx.FlagNames(): the names of the flags that were set (flag.Visit)
FlagNames(c) == c.set

\* ctx.Value(name)
Value(c, name) == c.value[name]

(* ------------------------------- inputs ------------------------------- *)

BoundedSeq(S, n) == UNION {[1..k -> S] : k \in 0..n}

\* what the caller may return from GetAllConfigOptions (not registered: the
\* field is nil)
DeclChoices ==
    { [registered |-> FALSE, opts |-> <<>>],
      [registered |-> TRUE,  opts |-> <<>>],
      [registered |-> TRUE,  opts |-> <<OptVerboseBool>>],
      [registered |-> TRUE,  opts |-> <<OptVerboseReq>>],
      [registered |-> TRUE,  opts |-> <<OptVerboseStr>>],
      [registered |-> TRUE,  opts |-> <<OptVerboseInt>>],
      [registered |-> TRUE,  opts |-> <<OptSelector>>],
      [registered |-> TRUE,  opts |-> <<OptVerboseBool, OptSelector>>] }

\* the App value Run is called on; GetInterfaces, GetDLT and StartCapture
\* are always implemented, the other function fields may be nil; the
\* version text is left empty, so that Run fills in its default
Apps ==
    [ VersionInfo         : {""},
      GetConfigOptions    : BOOLEAN,
      GetAllConfigOptions : DeclChoices,
      OpenPipe            : BOOLEAN ]

BoolTexts == {Absent, "true", "false"}

ArgNames ==
    <<"extcap-version", "extcap-interfaces", "extcap-dlts", "extcap-interface",
      "extcap-config", "capture", "extcap-capture-filter", "fifo", "verbose">>

ArgTexts ==
    <<{Absent, "4.0"}, BoolTexts, BoolTexts, {Absent, "eth0"},
      BoolTexts, BoolTexts, {Absent, "tcp", "(("}, {Absent, "/tmp/p"}, {Absent, "true", "7"}>>

ArgIndex(n) == CHOOSE i \in 1..Len(ArgNames) : ArgNames[i] = n

\* the command line, as the text given to each flag (Absent: not given);
\* "--capture" alone is the text "true"
ArgumentLists ==
    { [n \in {ArgNames[i] : i \in 1..Len(ArgNames)} |-> t[ArgIndex(n)]] :
        t \in ArgTexts[1] \X ArgTexts[2] \X ArgTexts[3] \X ArgTexts[4] \X ArgTexts[5]
              \X ArgTexts[6] \X ArgTexts[7] \X ArgTexts[8] \X ArgTexts[9] }

CaptureInterfaces ==
    { [value |-> "eth0",  display |-> "Ethernet"],
      [value |-> "wlan0", display |-> "Wireless"] }

TheDLT == [number |-> 1, name |-> "EN10MB", display |-> "Ethernet"]

\* pointers to the option objects GetConfigOptions may return
OptPtrs == {"p1", "p2"}

\* errors a caller's callback may return
CallbackErrors == {<<"callback failed">>, <<"device busy">>}

\* errors os.OpenFile may return
OsErrors == {<<"no such file or directory">>}

(* ------------------------------- state -------------------------------- *)

VARIABLES
    extapp,      \* the App value (receiver of Run)
    arguments,   \* the command line given to Run
    pc,          \* position of the process
    version,     \* extapp.Version.Info after defaulting
    flags,       \* app.Flags
    ctx,         \* the parsed cli.Context
    mode,        \* the branch of mainAction that was entered
    queried,     \* the flag names mainAction passed to ctx.IsSet, in order
    calls,       \* the callbacks invoked so far, in order
    stdout,      \* lines written to standard output
    stderr,      \* lines written to standard error
    err,         \* the error app.Run returned
    status,      \* exit status, meaningful when pc = "exit"
    cap,         \* locals of the capture branch: iface, fifo, filter, opts
    pipe,        \* the handle the pipe opener returned
    cfgOpts,     \* opts in the list-config branch (pointers)
    cfgI,        \* loop index i in the list-config branch
    number       \* the ordinal stored in each option object

vars == <<extapp, arguments, pc, version, flags, ctx, mode, queried, calls,
          stdout, stderr, err, status, cap, pipe, cfgOpts, cfgI, number>>

NoCapture == [iface |-> "", fifo |-> "", filter |-> "", opts |-> <<>>]
NoPipe == [path |-> "", opened |-> FALSE, closed |-> FALSE, by |-> ""]

ExitSuccess == 0
\* os.Exit(-1)
ExitFailure == 255
\* an unrecovered panic
ExitPanic == 2

Init ==
    /\ extapp \in Apps
    /\ arguments \in ArgumentLists
    /\ pc = "Run"
    /\ version = ""
    /\ flags = <<>>
    /\ ctx = NoContext
    /\ mode = "none"
    /\ queried = <<>>
    /\ calls = <<>>
    /\ stdout = <<>>
    /\ stderr = <<>>
    /\ err = NilErr
    /\ status = 0
    /\ cap = NoCapture
    /\ pipe = NoPipe
    /\ cfgOpts = <<>>
    /\ cfgI = 0
    /\ number = [p \in OptPtrs |-> 0]

\* a callback invocation and what it returned
Call(fn, arg, ret, e) == [fn |-> fn, arg |-> arg, ret |-> ret, err |-> e]

(* ------------------------------ App.Run ------------------------------- *)

\* Run up to app.Action = extapp.mainAction: version defaults and the flag
\* schema; an unknown option variant panics
BuildSchema ==
    /\ pc = "Run"
    /\ version' = IF extapp.VersionInfo = "" THEN "0.0.1" ELSE extapp.VersionInfo
    /\ LET decl == extapp.GetAllConfigOptions
           k    == FirstUnsupported(decl.opts)
       IN  IF ~decl.registered
           THEN /\ flags' = StaticFlags
                /\ pc' = "appRun"
                /\ UNCHANGED <<calls, stderr, status>>
           ELSE /\ calls' = Append(calls, Call("GetAllConfigOptions", <<>>, decl.opts, NilErr))
                /\ IF k = 0
                   THEN /\ flags' = SchemaFlags(decl.opts)
                        /\ pc' = "appRun"
                        /\ UNCHANGED <<stderr, status>>
                   ELSE /\ flags' = SchemaFlags(SubSeq(decl.opts, 1, k - 1))
                        /\ pc' = "exit"
                        /\ stderr' = Append(stderr, <<"panic", "Unknown config option type">>)
                        /\ status' = ExitPanic
    /\ UNCHANGED <<extapp, arguments, ctx, mode, queried, stdout, err, cap, pipe,
                   cfgOpts, cfgI, number>>

HelpText == <<"help">>

\* app.Run(arguments) up to the call of the action: parse the command line;
\* a usage error prints the help and is returned
ParseArguments ==
    /\ pc = "appRun"
    /\ LET e == ParseError(flags, arguments)
       IN  IF e # NilErr
           THEN /\ err' = e
                /\ stdout' = Append(stdout, HelpText)
                /\ pc' = "appReturned"
                /\ UNCHANGED ctx
           ELSE /\ ctx' = ParseContext(flags, arguments)
                /\ pc' = "mainAction"
                /\ UNCHANGED <<err, stdout>>
    /\ UNCHANGED <<extapp, arguments, version, flags, mode, queried, calls, stderr,
                   status, cap, pipe, cfgOpts, cfgI, number>>

\* mutant: the error is printed but the process ends normally
RunReturn_NoExitCode ==
    /\ pc = "appReturned"
    /\ stderr' = IF err # NilErr THEN Append(stderr, err) ELSE stderr
    /\ status' = ExitSuccess
    /\ pc' = "exit"
    /\ UNCHANGED <<extapp, arguments, version, flags, ctx, mode, queried, calls,
                   stdout, err, cap, pipe, cfgOpts, cfgI, number>>

\* Run after app.Run returned: report the error and exit -1, or return
RunReturn ==
    /\ pc = "appReturned"
    /\ IF err # NilErr
       THEN /\ stderr' = Append(stderr, err)
            /\ status' = ExitFailure
       ELSE /\ status' = ExitSuccess
            /\ UNCHANGED stderr
    /\ pc' = "exit"
    /\ UNCHANGED <<extapp, arguments, version, flags, ctx, mode, queried, calls,
                   stdout, err, cap, pipe, cfgOpts, cfgI, number>>

(* --------------------------- App.mainAction --------------------------- *)

\* mutant: the capture branch is tested before the list-config branch
SelectMode_CaptureFirst(c) ==
    IF c.set \cap {"extcap-interfaces"} # {} THEN "ListInterfaces"
    ELSE IF c.set \cap {"extcap-dlts"} # {} THEN "ListDLTs"
    ELSE IF c.set \cap {"capture"} # {} THEN "Capture"
    ELSE IF c.set \cap {"extcap-config"} # {} THEN "ListConfig"
    ELSE IF c.set \cap {"extcap-capture-filter"} # {} THEN "CaptureFilterValidation"
    ELSE "Help"

\* mutant: the capture filter is tested before the capture branch
SelectMode_FilterFirst(c) ==
    IF c.set \cap {"extcap-interfaces"} # {} THEN "ListInterfaces"
    ELSE IF c.set \cap {"extcap-dlts"} # {} THEN "ListDLTs"
    ELSE IF c.set \cap {"extcap-config"} # {} THEN "ListConfig"
    ELSE IF c.set \cap {"extcap-capture-filter"} # {} THEN "CaptureFilterValidation"
    ELSE IF c.set \cap {"capture"} # {} THEN "Capture"
    ELSE "Help"

\* the if-chain of mainAction: the first branch whose flag is set
SelectMode(c) ==
    IF IsSet(c, "extcap-interfaces") THEN "ListInterfaces"
    ELSE IF IsSet(c, "extcap-dlts") THEN "ListDLTs"
    ELSE IF IsSet(c, "extcap-config") THEN "ListConfig"
    ELSE IF IsSet(c, "capture") THEN "Capture"
    ELSE IF IsSet(c, "extcap-capture-filter") THEN "CaptureFilterValidation"
    ELSE "Help"

\* fmt.Println of the version, an interface, a DLT, an option
VersionLine(v) == <<"version", v>>
InterfaceLine(iface) == <<"interface", iface.value, iface.display>>
DLTLine(dlt) == <<"dlt", dlt.number, dlt.name, dlt.display>>
OptionLine(p, n) == <<"arg", n, p>>

\* mutant: the version line is printed after the interfaces
InterfacesOutput_VersionLast(v, ifaces) ==
    [i \in 1..Len(ifaces) |-> <<"interface", ifaces[i].value, ifaces[i].display>>]
    \o << <<"version", v>> >>

\* the lines the list-interfaces branch prints after GetInterfaces succeeded
InterfacesOutput(v, ifaces) ==
    <<VersionLine(v)>> \o [i \in 1..Len(ifaces) |-> InterfaceLine(ifaces[i])]

\* opts[i].setNumber(i)
setNumber(num, p, i) == [num EXCEPT ![p] = i]

\* mutant: the loop over the flag names skips nothing
CaptureOptions_NoSkip(c) ==
    [name \in c.set |-> c.value[name]]

\* the options mapping the capture branch builds
CaptureOptions(c) ==
    [name \in FlagNames(c) \ ExcludedNames |-> Value(c, name)]

\* mutant: the default opener returns the error of os.OpenFile as it is
openPipe_NoWrap(name, oserr) ==
    IF oserr # <<>>
    THEN [pipe |-> [path |-> "", opened |-> FALSE, closed |-> FALSE, by |-> ""], err |-> oserr]
    ELSE [pipe |-> [path |-> name, opened |-> TRUE, closed |-> FALSE, by |-> "openPipe"],
          err  |-> <<>>]

\* the default pipe opener, given what os.OpenFile returned
openPipe(name, oserr) ==
    IF oserr # NilErr
    THEN [pipe |-> NoPipe, err |-> <<"unable to open pipe">> \o oserr]
    ELSE [pipe |-> [path |-> name, opened |-> TRUE, closed |-> FALSE, by |-> "openPipe"],
          err  |-> NilErr]

\* mutant: the version line is printed before GetInterfaces is called
ListInterfaces_VersionFirst ==
    /\ pc = "mainAction"
    /\ SelectMode(ctx) = "ListInterfaces"
    /\ mode' = "ListInterfaces"
    /\ queried' = queried \o <<"extcap-interfaces">>
    /\ \E e \in {NilErr} \cup CallbackErrors :
       \E ifaces \in IF e = NilErr THEN BoundedSeq(CaptureInterfaces, MaxIfaces) ELSE {<<>>} :
          /\ calls' = Append(calls, [fn |-> "GetInterfaces", arg |-> <<>>, ret |-> ifaces, err |-> e])
          /\ err' = e
          /\ stdout' = IF e # NilErr THEN Append(stdout, <<"version", version>>)
                       ELSE stdout \o InterfacesOutput(version, ifaces)
    /\ pc' = "appReturned"
    /\ UNCHANGED <<extapp, arguments, version, flags, ctx, stderr, status, cap, pipe,
                   cfgOpts, cfgI, number>>

\* branch 1: --extcap-interfaces
ListInterfaces ==
    /\ pc = "mainAction"
    /\ SelectMode(ctx) = "ListInterfaces"
    /\ mode' = "ListInterfaces"
    /\ queried' = queried \o <<"extcap-interfaces">>
    /\ \E e \in {NilErr} \cup CallbackErrors :
       \E ifaces \in IF e = NilErr THEN BoundedSeq(CaptureInterfaces, MaxIfaces) ELSE {<<>>} :
          /\ calls' = Append(calls, Call("GetInterfaces", <<>>, ifaces, e))
          /\ err' = e
          /\ stdout' = IF e # NilErr THEN stdout
                       ELSE stdout \o InterfacesOutput(version, ifaces)
    /\ pc' = "appReturned"
    /\ UNCHANGED <<extapp, arguments, version, flags, ctx, stderr, status, cap, pipe,
                   cfgOpts, cfgI, number>>

\* mutant: the error of GetDLT is wrapped before it is returned
ListDLTs_WrapError ==
    /\ pc = "mainAction"
    /\ SelectMode(ctx) = "ListDLTs"
    /\ mode' = "ListDLTs"
    /\ queried' = queried \o <<"extcap-interfaces", "extcap-dlts", "extcap-interface">>
    /\ IF ~IsSet(ctx, "extcap-interface")
       THEN /\ err' = ErrNoInterfaceSpecified
            /\ UNCHANGED <<calls, stdout>>
       ELSE \E e \in {NilErr} \cup CallbackErrors :
               /\ calls' = Append(calls, [fn |-> "GetDLT", arg |-> <<String(ctx, "extcap-interface")>>,
                                          ret |-> IF e = NilErr THEN <<TheDLT>> ELSE <<>>, err |-> e])
               /\ err' = IF e = NilErr THEN e ELSE <<"unable to get DLT">> \o e
               /\ stdout' = IF e # NilErr THEN stdout ELSE Append(stdout, <<"dlt", TheDLT.number, TheDLT.name, TheDLT.display>>)
    /\ pc' = "appReturned"
    /\ UNCHANGED <<extapp, arguments, version, flags, ctx, stderr, status, cap, pipe,
                   cfgOpts, cfgI, number>>

\* branch 2: --extcap-dlts
ListDLTs ==
    /\ pc = "mainAction"
    /\ SelectMode(ctx) = "ListDLTs"
    /\ mode' = "ListDLTs"
    /\ queried' = queried \o <<"extcap-interfaces", "extcap-dlts", "extcap-interface">>
    /\ IF ~IsSet(ctx, "extcap-interface")
       THEN /\ err' = ErrNoInterfaceSpecified
            /\ UNCHANGED <<calls, stdout>>
       ELSE \E e \in {NilErr} \cup CallbackErrors :
               /\ calls' = Append(calls, Call("GetDLT", <<String(ctx, "extcap-interface")>>,
                                             IF e = NilErr THEN <<TheDLT>> ELSE <<>>, e))
               /\ err' = e
               /\ stdout' = IF e # NilErr THEN stdout ELSE Append(stdout, DLTLine(TheDLT))
    /\ pc' = "appReturned"
    /\ UNCHANGED <<extapp, arguments, version, flags, ctx, stderr, status, cap, pipe,
                   cfgOpts, cfgI, number>>

\* mutant: the interface is required before the nil test of the callback
ListConfigGuard_InterfaceFirst(app, c) ==
    IF "extcap-interface" \notin c.set THEN "nointerface"
    ELSE IF ~app.GetConfigOptions THEN "unsupported"
    ELSE "lookup"

\* mutant: the option lookup runs without the interface check
ListConfigGuard_NoInterface(app, c) ==
    IF ~app.GetConfigOptions THEN "unsupported" ELSE "lookup"

\* branch 3, before the lookup: no per-interface callback returns nil at
\* once, then the interface is required
ListConfigGuard(app, c) ==
    IF ~app.GetConfigOptions THEN "unsupported"
    ELSE IF ~IsSet(c, "extcap-interface") THEN "nointerface"
    ELSE "lookup"

\* branch 3: --extcap-config, up to the loop over the options
ListConfig ==
    /\ pc = "mainAction"
    /\ SelectMode(ctx) = "ListConfig"
    /\ mode' = "ListConfig"
    /\ IF ListConfigGuard(extapp, ctx) = "unsupported"
       THEN /\ queried' = queried \o <<"extcap-interfaces", "extcap-dlts", "extcap-config">>
            /\ err' = NilErr
            /\ pc' = "appReturned"
            /\ UNCHANGED <<calls, cfgOpts, cfgI>>
       ELSE /\ queried' = queried \o <<"extcap-interfaces", "extcap-dlts", "extcap-config",
                                       "extcap-interface">>
            /\ IF ListConfigGuard(extapp, ctx) = "nointerface"
               THEN /\ err' = ErrNoInterfaceSpecified
                    /\ pc' = "appReturned"
                    /\ UNCHANGED <<calls, cfgOpts, cfgI>>
               ELSE \E e \in {NilErr} \cup CallbackErrors :
                    \E opts \in IF e = NilErr THEN BoundedSeq(OptPtrs, MaxOpts) ELSE {<<>>} :
                       /\ calls' = Append(calls,
                              Call("GetConfigOptions", <<String(ctx, "extcap-interface")>>, opts, e))
                       /\ err' = e
                       /\ IF e # NilErr
                          THEN pc' = "appReturned" /\ UNCHANGED <<cfgOpts, cfgI>>
                          ELSE pc' = "configLoop" /\ cfgOpts' = opts /\ cfgI' = 0
    /\ UNCHANGED <<extapp, arguments, version, flags, ctx, stdout, stderr, status, cap,
                   pipe, number>>

\* mutant: ordinals start at 1
ConfigLoop_OneBased ==
    /\ pc = "configLoop"
    /\ cfgI < Len(cfgOpts)
    /\ number' = [number EXCEPT ![cfgOpts[cfgI + 1]] = cfgI + 1]
    /\ stdout' = Append(stdout, <<"arg", number'[cfgOpts[cfgI + 1]], cfgOpts[cfgI + 1]>>)
    /\ cfgI' = cfgI + 1
    /\ UNCHANGED <<extapp, arguments, pc, version, flags, ctx, mode, queried, calls,
                   stderr, err, status, cap, pipe, cfgOpts>>

\* branch 3, one iteration of  for i := range opts
ConfigLoop ==
    /\ pc = "configLoop"
    /\ cfgI < Len(cfgOpts)
    /\ LET p == cfgOpts[cfgI + 1]
       IN  /\ number' = setNumber(number, p, cfgI)
           /\ stdout' = Append(stdout, OptionLine(p, number'[p]))
    /\ cfgI' = cfgI + 1
    /\ UNCHANGED <<extapp, arguments, pc, version, flags, ctx, mode, queried, calls,
                   stderr, err, status, cap, pipe, cfgOpts>>

\* branch 3, after the loop: return nil
ConfigDone ==
    /\ pc = "configLoop"
    /\ cfgI = Len(cfgOpts)
    /\ err' = NilErr
    /\ pc' = "appReturned"
    /\ UNCHANGED <<extapp, arguments, version, flags, ctx, mode, queried, calls, stdout,
                   stderr, status, cap, pipe, cfgOpts, cfgI, number>>

\* mutant: the capture branch does not require the interface
CapturePrecondition_NoInterface(c) ==
    IF "fifo" \notin c.set THEN ErrNoPipeProvided ELSE NilErr

\* mutant: the capture branch does not require the pipe
CapturePrecondition_NoFifo(c) ==
    IF "extcap-interface" \notin c.set THEN ErrNoInterfaceSpecified ELSE NilErr

\* mutant: the pipe is required before the interface
CapturePrecondition_FifoFirst(c) ==
    IF "fifo" \notin c.set THEN ErrNoPipeProvided
    ELSE IF "extcap-interface" \notin c.set THEN ErrNoInterfaceSpecified
    ELSE NilErr

\* branch 4, the two required flags, in source order
CapturePrecondition(c) ==
    IF ~IsSet(c, "extcap-interface") THEN ErrNoInterfaceSpecified
    ELSE IF ~IsSet(c, "fifo") THEN ErrNoPipeProvided
    ELSE NilErr

\* branch 4: --capture, up to the choice of the pipe opener
Capture ==
    /\ pc = "mainAction"
    /\ SelectMode(ctx) = "Capture"
    /\ mode' = "Capture"
    /\ queried' = queried \o
          (IF ~IsSet(ctx, "extcap-interface")
           THEN <<"extcap-interfaces", "extcap-dlts", "extcap-config", "capture",
                  "extcap-interface">>
           ELSE <<"extcap-interfaces", "extcap-dlts", "extcap-config", "capture",
                  "extcap-interface", "fifo">>)
    /\ LET e == CapturePrecondition(ctx)
       IN  IF e # NilErr
           THEN /\ err' = e
                /\ pc' = "appReturned"
                /\ UNCHANGED cap
           ELSE /\ cap' = [iface  |-> String(ctx, "extcap-interface"),
                           fifo   |-> String(ctx, "fifo"),
                           filter |-> String(ctx, "extcap-capture-filter"),
                           opts   |-> CaptureOptions(ctx)]
                /\ pc' = "openPipe"
                /\ UNCHANGED err
    /\ UNCHANGED <<extapp, arguments, version, flags, ctx, calls, stdout, stderr, status,
                   pipe, cfgOpts, cfgI, number>>

\* mutant: the opener's error is dropped
AfterOpenPipe_IgnoreError(e) == "startCapture"

\* branch 4, after the opener returned: an error ends the branch
AfterOpenPipe(e) == IF e # NilErr THEN "appReturned" ELSE "startCapture"

\* branch 4: pipe, err := openPipeFunc(fifo)
OpenPipe ==
    /\ pc = "openPipe"
    /\ IF extapp.OpenPipe
       THEN \E e \in {NilErr} \cup CallbackErrors :
               /\ pipe' = IF e # NilErr THEN NoPipe
                          ELSE [path |-> cap.fifo, opened |-> TRUE, closed |-> FALSE,
                                by |-> "OpenPipe"]
               /\ calls' = Append(calls, Call("OpenPipe", <<cap.fifo>>, <<pipe'>>, e))
               /\ err' = e
               /\ pc' = AfterOpenPipe(e)
       ELSE \E oserr \in {NilErr} \cup OsErrors :
               LET r == openPipe(cap.fifo, oserr)
               IN  /\ calls' = Append(calls, Call("openPipe", <<cap.fifo>>, <<r.pipe>>, r.err))
                   /\ err' = r.err
                   /\ pipe' = r.pipe
                   /\ pc' = AfterOpenPipe(r.err)
    /\ UNCHANGED <<extapp, arguments, version, flags, ctx, mode, queried, stdout, stderr,
                   status, cap, cfgOpts, cfgI, number>>

\* mutant: the dispatcher closes the handle when the capture failed
PipeAfterCapture_CloseOnError(p, closedByCallback, e) ==
    [p EXCEPT !.closed = closedByCallback \/ e # <<>>]

\* the handle when mainAction returns: as the callback left it, the
\* dispatcher has no Close call
PipeAfterCapture(p, closedByCallback, e) == [p EXCEPT !.closed = closedByCallback]

\* branch 4: extapp.StartCapture(iface, pipe, filter, opts); the callback
\* owns the handle and may or may not close it (recorded as what the call
\* returned)
StartCapture ==
    /\ pc = "startCapture"
    /\ \E e \in {NilErr} \cup CallbackErrors, closes \in BOOLEAN :
          /\ calls' = Append(calls,
                 Call("StartCapture", <<cap.iface, pipe, cap.filter, cap.opts>>, <<closes>>, e))
          /\ pipe' = PipeAfterCapture(pipe, closes, e)
          /\ err' = e
    /\ pc' = "appReturned"
    /\ UNCHANGED <<extapp, arguments, version, flags, ctx, mode, queried, stdout, stderr,
                   status, cap, cfgOpts, cfgI, number>>

\* branch 5: only --extcap-capture-filter: os.Exit(0)
CaptureFilterValidation ==
    /\ pc = "mainAction"
    /\ SelectMode(ctx) = "CaptureFilterValidation"
    /\ mode' = "CaptureFilterValidation"
    /\ queried' = queried \o <<"extcap-interfaces", "extcap-dlts", "extcap-config",
                               "capture", "extcap-capture-filter">>
    /\ status' = ExitSuccess
    /\ pc' = "exit"
    /\ UNCHANGED <<extapp, arguments, version, flags, ctx, calls, stdout, stderr, err,
                   cap, pipe, cfgOpts, cfgI, number>>

\* mutant: an invocation without a mode flag is an error
Help_Error ==
    /\ pc = "mainAction"
    /\ SelectMode(ctx) = "Help"
    /\ mode' = "Help"
    /\ queried' = queried \o <<"extcap-interfaces", "extcap-dlts", "extcap-config",
                               "capture", "extcap-capture-filter">>
    /\ stdout' = Append(stdout, HelpText)
    /\ err' = <<"no mode specified">>
    /\ pc' = "appReturned"
    /\ UNCHANGED <<extapp, arguments, version, flags, ctx, calls, stderr, status, cap,
                   pipe, cfgOpts, cfgI, number>>

\* no branch taken: return cli.ShowAppHelp(ctx)
Help ==
    /\ pc = "mainAction"
    /\ SelectMode(ctx) = "Help"
    /\ mode' = "Help"
    /\ queried' = queried \o <<"extcap-interfaces", "extcap-dlts", "extcap-config",
                               "capture", "extcap-capture-filter">>
    /\ stdout' = Append(stdout, HelpText)
    /\ err' = NilErr
    /\ pc' = "appReturned"
    /\ UNCHANGED <<extapp, arguments, version, flags, ctx, calls, stderr, status, cap,
                   pipe, cfgOpts, cfgI, number>>

(* --------------------------- specification ---------------------------- *)

Next ==
    \/ BuildSchema
    \/ ParseArguments
    \/ ListInterfaces
    \/ ListDLTs
    \/ ListConfig
    \/ ConfigLoop
    \/ ConfigDone
    \/ Capture
    \/ OpenPipe
    \/ StartCapture
    \/ CaptureFilterValidation
    \/ Help
    \/ RunReturn

Spec == Init /\ [][Next]_vars

(* ------------------------- vocabulary of the claims ------------------- *)

CalledFns == {calls[i].fn : i \in 1..Len(calls)}

\* the callbacks the dispatcher can reach
DispatchCallbacks == {"GetInterfaces", "GetDLT", "GetConfigOptions", "OpenPipe", "StartCapture"}
PipeOpeners == {"OpenPipe", "openPipe"}

\* mainAction was entered and has returned to its caller
Returned == mode # "none" /\ pc \in {"appReturned", "exit"} /\ mode # "CaptureFilterValidation"

\* the priority order the specification states, by command-line flag
Priority ==
    << <<"extcap-interfaces", "ListInterfaces">>,
       <<"extcap-dlts", "ListDLTs">>,
       <<"extcap-config", "ListConfig">>,
       <<"capture", "Capture">>,
       <<"extcap-capture-filter", "CaptureFilterValidation">> >>

\* the mode the specification selects for a set of flags given on the command line
ModeOfFlagSet(given) ==
    LET hits == {i \in 1..Len(Priority) : Priority[i][1] \in given}
    IN  IF hits = {} THEN "Help"
        ELSE Priority[CHOOSE i \in hits : \A j \in hits : i <= j][2]

Selected == ModeOfFlagSet(Given(arguments))

InterfaceGiven == arguments["extcap-interface"] # Absent
FifoGiven == arguments["fifo"] # Absent

(* C1: a mode that requires an interface (ListDLTs, ListConfig with a      *)
(* per-interface option callback registered, Capture), selected without    *)
(* --extcap-interface, makes mainAction return ErrNoInterfaceSpecified,    *)
(* and none of GetInterfaces, GetDLT, GetConfigOptions, OpenPipe,          *)
(* StartCapture (nor the default opener) is invoked.                       *)
C1_RequiresInterface ==
    ( /\ ~InterfaceGiven
      /\ \/ Selected \in {"ListDLTs", "Capture"}
         \/ Selected = "ListConfig" /\ extapp.GetConfigOptions )
    => /\ CalledFns \cap (DispatchCallbacks \cup PipeOpeners) = {}
       /\ Returned => err = ErrNoInterfaceSpecified

C1_Witness ==
    /\ Returned
    /\ ~InterfaceGiven
    /\ Selected = "ListConfig" /\ extapp.GetConfigOptions
    /\ err = ErrNoInterfaceSpecified

(* C2 as stated: Capture selected without --fifo makes mainAction return   *)
(* ErrNoPipeProvided.                                                      *)
C2_Original ==
    (Selected = "Capture" /\ ~FifoGiven /\ Returned) => err = ErrNoPipeProvided

(* C2: Capture selected without --fifo never invokes a pipe opener nor     *)
(* StartCapture; mainAction returns ErrNoPipeProvided when                 *)
(* --extcap-interface is set, and ErrNoInterfaceSpecified when it is not.  *)
C2_RequiresFifo ==
    (Selected = "Capture" /\ ~FifoGiven)
    => /\ CalledFns \cap (PipeOpeners \cup {"StartCapture"}) = {}
       /\ Returned =>
            err = IF InterfaceGiven THEN ErrNoPipeProvided ELSE ErrNoInterfaceSpecified

C2_Witness ==
    /\ Returned
    /\ Selected = "Capture" /\ ~FifoGiven /\ InterfaceGiven
    /\ err = ErrNoPipeProvided

(* C3: in Capture mode with --extcap-interface and --fifo set, when the    *)
(* pipe opener returns an error mainAction returns that error and          *)
(* StartCapture is never invoked.                                          *)
C3_OpenerError ==
    \A i \in 1..Len(calls) :
        (calls[i].fn \in PipeOpeners /\ calls[i].err # NilErr)
        => /\ "StartCapture" \notin CalledFns
           /\ i = Len(calls)
           /\ pc \in {"appReturned", "exit"}
           /\ err = calls[i].err

C3_Witness ==
    /\ Returned /\ mode = "Capture"
    /\ InterfaceGiven /\ FifoGiven
    /\ Len(calls) > 0
    /\ calls[Len(calls)].fn = "OpenPipe"
    /\ calls[Len(calls)].err # NilErr
    /\ err = calls[Len(calls)].err

CallbacksOf(m) ==
    CASE m = "ListInterfaces" -> {"GetInterfaces"}
      [] m = "ListDLTs"       -> {"GetDLT"}
      [] m = "ListConfig"     -> {"GetConfigOptions"}
      [] m = "Capture"        -> {"OpenPipe", "openPipe", "StartCapture"}
      [] OTHER                -> {}

OutputsOf(m) ==
    CASE m = "ListInterfaces" -> {"version", "interface"}
      [] m = "ListDLTs"       -> {"dlt"}
      [] m = "ListConfig"     -> {"arg"}
      [] m = "Help"           -> {"help"}
      [] OTHER                -> {}

\* position of a mode in the priority order (Help is last)
Rank(m) ==
    IF \E i \in 1..Len(Priority) : Priority[i][2] = m
    THEN CHOOSE i \in 1..Len(Priority) : Priority[i][2] = m
    ELSE Len(Priority) + 1

(* C4: the mode that runs is the highest-priority mode whose flag is set   *)
(* (ListInterfaces > ListDLTs > ListConfig > Capture >                     *)
(* CaptureFilterValidation > Help), and nothing of another mode happens:   *)
(* only that mode's callbacks are invoked, only its lines are printed, no  *)
(* flag of a lower-priority mode is examined, --extcap-interface is        *)
(* examined only by the three modes that require it and --fifo only by     *)
(* Capture.                                                                *)
C4_Priority ==
    mode # "none" =>
       /\ mode = Selected
       /\ CalledFns \ {"GetAllConfigOptions"} \subseteq CallbacksOf(mode)
       /\ {stdout[i][1] : i \in 1..Len(stdout)} \subseteq OutputsOf(mode)
       /\ \A k \in 1..Len(queried) :
             /\ \A i \in 1..Len(Priority) : queried[k] = Priority[i][1] => i <= Rank(mode)
             /\ queried[k] = "extcap-interface" => mode \in {"ListDLTs", "ListConfig", "Capture"}
             /\ queried[k] = "fifo" => mode = "Capture"
       /\ err = ErrNoPipeProvided => mode = "Capture"
       /\ err = ErrNoInterfaceSpecified => mode \in {"ListDLTs", "ListConfig", "Capture"}

C4_Witness ==
    /\ Returned
    /\ mode = "ListConfig"
    /\ arguments["capture"] # Absent
    /\ arguments["extcap-capture-filter"] # Absent
    /\ ~InterfaceGiven /\ ~FifoGiven
    /\ extapp.GetConfigOptions

\* the typed value of the text given to flag n, by the type the schema declares
GivenValue(n) ==
    LET t == FlagNamed(flags, n).Type
    IN  CASE t = "bool"   -> <<"bool", arguments[n] = "true">>
          [] t = "string" -> <<"string", arguments[n]>>
          [] t = "int"    -> <<"int", IF arguments[n] = "7" THEN 7 ELSE 0>>

(* C5: StartCapture receives the value of --extcap-interface as interface  *)
(* id, the value of --extcap-capture-filter as filter, and an options      *)
(* mapping that holds, keyed by flag name, the value of every other flag   *)
(* given on the command line (verbose -> true) and has none of the keys    *)
(* extcap-interface, fifo, extcap-capture-filter.                          *)
C5_CaptureArguments ==
    \A i \in 1..Len(calls) :
        calls[i].fn = "StartCapture" =>
            LET iface  == calls[i].arg[1]
                filter == calls[i].arg[3]
                opts   == calls[i].arg[4]
            IN  /\ iface = arguments["extcap-interface"]
                /\ filter = IF arguments["extcap-capture-filter"] = Absent THEN ""
                            ELSE arguments["extcap-capture-filter"]
                /\ DOMAIN opts \cap {"extcap-interface", "fifo", "extcap-capture-filter"} = {}
                /\ \A n \in Given(arguments) \ {"extcap-interface", "fifo", "extcap-capture-filter"} :
                      n \in DOMAIN opts /\ opts[n] = GivenValue(n)

C5_Witness ==
    /\ Len(calls) > 0
    /\ calls[Len(calls)].fn = "StartCapture"
    /\ calls[Len(calls)].arg[1] = "eth0"
    /\ calls[Len(calls)].arg[3] = "tcp"
    /\ arguments["verbose"] = "true"
    /\ extapp.GetAllConfigOptions.opts = <<OptVerboseBool>>
    /\ calls[Len(calls)].arg[4]["verbose"] = <<"bool", TRUE>>

(* C6: ListConfig selected with no per-interface option callback           *)
(* registered: mainAction returns no error, prints nothing and invokes no  *)
(* callback, with or without --extcap-interface.                           *)
C6_NoConfigCallback ==
    (Selected = "ListConfig" /\ ~extapp.GetConfigOptions)
    => /\ CalledFns \cap (DispatchCallbacks \cup PipeOpeners) = {}
       /\ mode # "none" => stdout = <<>>
       /\ Returned => err = NilErr

C6_Witness ==
    /\ Returned
    /\ Selected = "ListConfig" /\ ~extapp.GetConfigOptions
    /\ ~InterfaceGiven
    /\ err = NilErr /\ stdout = <<>>

\* the last callback invocation
LastCall == calls[Len(calls)]

(* C7: when GetConfigOptions returns n options without error, the line     *)
(* printed for position i (0..n-1) carries ordinal i and the option at     *)
(* that position, lines come in callback return order, a line is printed   *)
(* only once its ordinal is stored, and after the loop exactly n lines     *)
(* were printed.                                                           *)
C7_Ordinals ==
    ( /\ mode = "ListConfig"
      /\ Len(calls) > 0
      /\ LastCall.fn = "GetConfigOptions"
      /\ LastCall.err = NilErr )
    => LET opts == LastCall.ret
       IN  /\ Len(stdout) = cfgI
           /\ cfgI <= Len(opts)
           /\ \A k \in 1..Len(stdout) : stdout[k] = <<"arg", k - 1, opts[k]>>
           /\ cfgI > 0 => number[opts[cfgI]] = cfgI - 1
           /\ pc \in {"appReturned", "exit"} => Len(stdout) = Len(opts) /\ err = NilErr

C7_Witness ==
    /\ Returned
    /\ mode = "ListConfig"
    /\ Len(cfgOpts) = MaxOpts
    /\ cfgOpts[1] # cfgOpts[2]
    /\ Len(stdout) = MaxOpts
    /\ stdout[2][2] = 1

\* the caller declares an option of a variant other than string, boolean, integer
DeclaresUnsupported ==
    /\ extapp.GetAllConfigOptions.registered
    /\ \E i \in 1..Len(extapp.GetAllConfigOptions.opts) :
          extapp.GetAllConfigOptions.opts[i].variant \notin {"string", "bool", "int"}

(* C8: when a declared configuration option is of an unsupported variant,  *)
(* Run aborts while it builds the flag schema: the command line is never   *)
(* parsed, mainAction is never entered, none of GetInterfaces, GetDLT,     *)
(* GetConfigOptions, OpenPipe, StartCapture is invoked and nothing is      *)
(* written to standard output, whatever the arguments.                     *)
C8_UnsupportedVariantAborts ==
    DeclaresUnsupported
    => /\ pc \in {"Run", "exit"}
       /\ mode = "none"
       /\ queried = <<>>
       /\ CalledFns \cap (DispatchCallbacks \cup PipeOpeners) = {}
       /\ stdout = <<>>
       /\ pc = "exit" => status = ExitPanic /\ err = NilErr

C8_Witness ==
    /\ DeclaresUnsupported
    /\ extapp.GetAllConfigOptions.opts = <<OptVerboseBool, OptSelector>>
    /\ pc = "exit"
    /\ status = ExitPanic
    /\ arguments["extcap-interfaces"] = "true"

(* C9: when GetInterfaces succeeds with n interfaces, ListInterfaces       *)
(* prints exactly n+1 lines: the version line, then one line per           *)
(* interface in the order returned, duplicates kept; the mode runs         *)
(* without --extcap-interface.                                             *)
C9_InterfaceLines ==
    ( /\ Selected = "ListInterfaces"
      /\ Len(calls) > 0
      /\ LastCall.fn = "GetInterfaces"
      /\ LastCall.err = NilErr )
    => LET ifaces == LastCall.ret
       IN  /\ Len(stdout) = Len(ifaces) + 1
           /\ stdout[1] = <<"version", version>>
           /\ \A i \in 1..Len(ifaces) :
                 stdout[i + 1] = <<"interface", ifaces[i].value, ifaces[i].display>>
           /\ err = NilErr

C9_Witness ==
    /\ Returned
    /\ mode = "ListInterfaces"
    /\ ~InterfaceGiven
    /\ LastCall.fn = "GetInterfaces"
    /\ Len(LastCall.ret) = 2
    /\ LastCall.ret[1].value = "wlan0"
    /\ LastCall.ret[2].value = "wlan0"
    /\ Len(stdout) = 3

\* the flags whose presence or value could bear on the choice of the mode
ModeRelevant ==
    {"extcap-interfaces", "extcap-dlts", "extcap-config", "capture",
     "extcap-capture-filter", "extcap-interface", "fifo"}

\* another text for a flag that is given: a boolean flag gets the other
\* truth value, a string flag the empty text
OtherText(n) ==
    IF n \in {"extcap-interfaces", "extcap-dlts", "extcap-config", "capture"}
    THEN (IF arguments[n] = "true" THEN "false" ELSE "true")
    ELSE ""

(* C10: the mode depends only on which flags are set: an invocation that   *)
(* sets the same flags and gives one of them another value (a boolean      *)
(* mode flag given false instead of true, a string flag given the empty    *)
(* text) selects the same mode: the dispatcher, entered with the parsed    *)
(* command line, selects for the other command line the mode it selects    *)
(* for this one, and the mode that runs is the one selected.               *)
C10_PresenceOnly ==
    /\ mode # "none" => mode = SelectMode(ctx)
    /\ pc = "mainAction" =>
          \A n \in Given(arguments) \cap ModeRelevant :
             LET other == [arguments EXCEPT ![n] = OtherText(n)]
             IN  /\ ParseError(flags, other) = NilErr
                 /\ SelectMode(ParseContext(flags, other)) = SelectMode(ctx)

C10_Witness ==
    /\ Returned
    /\ mode = "ListDLTs"
    /\ arguments["extcap-dlts"] = "false"
    /\ arguments["extcap-interfaces"] = Absent
    /\ arguments["capture"] = "true"


\* one of the three modes the specification says require an interface
NeedsInterface == Selected \in {"ListDLTs", "ListConfig", "Capture"}

(* C11 as stated: ListDLTs, ListConfig or Capture selected without         *)
(* --extcap-interface always ends in ErrNoInterfaceSpecified, whatever     *)
(* callbacks are registered.                                               *)
C11_Original ==
    (NeedsInterface /\ ~InterfaceGiven /\ Returned) => err = ErrNoInterfaceSpecified

(* C11: ListDLTs, Capture, or ListConfig with a per-interface option       *)
(* callback registered, selected without --extcap-interface, ends in the   *)
(* reported failure ErrNoInterfaceSpecified: nothing is printed, the       *)
(* error is written to standard error and the exit status is non-zero,     *)
(* whether or not OpenPipe and GetAllConfigOptions are registered.         *)
C11_ReportedFailure ==
    ( /\ NeedsInterface
      /\ ~InterfaceGiven
      /\ Selected = "ListConfig" => extapp.GetConfigOptions
      /\ mode # "none" )
    => /\ stdout = <<>>
       /\ pc \in {"appReturned", "exit"}
       /\ err = ErrNoInterfaceSpecified
       /\ pc = "exit" => status = ExitFailure /\ stderr = <<ErrNoInterfaceSpecified>>

C11_Witness ==
    /\ pc = "exit"
    /\ mode = "ListDLTs"
    /\ ~InterfaceGiven
    /\ extapp.OpenPipe /\ ~extapp.GetConfigOptions
    /\ status = ExitFailure
    /\ stderr = <<ErrNoInterfaceSpecified>>


\* the error carries the context the default opener adds
WrappedOpenError(e) == Len(e) > 1 /\ e[1] = "unable to open pipe"

(* C12 as stated: every pipe-open failure, from the default opener or      *)
(* from a caller's OpenPipe, reaches the caller of the dispatcher wrapped  *)
(* with "unable to open pipe".                                             *)
C12_Original ==
    \A i \in 1..Len(calls) :
        (calls[i].fn \in PipeOpeners /\ calls[i].err # NilErr) => WrappedOpenError(err)

(* C12: a failure of the default opener reaches the caller of the          *)
(* dispatcher as "unable to open pipe" wrapped around the error of         *)
(* os.OpenFile; a failure of a caller's OpenPipe reaches it as the very    *)
(* error OpenPipe returned, with no context added.                         *)
C12_OpenFailureContext ==
    \A i \in 1..Len(calls) :
        (calls[i].fn \in PipeOpeners /\ calls[i].err # NilErr)
        => /\ calls[i].fn = "openPipe" =>
                 /\ ~extapp.OpenPipe
                 /\ WrappedOpenError(err)
                 /\ SubSeq(err, 2, Len(err)) \in OsErrors
           /\ calls[i].fn = "OpenPipe" =>
                 /\ extapp.OpenPipe
                 /\ err = calls[i].err
                 /\ err \in CallbackErrors
                 /\ ~WrappedOpenError(err)

C12_Witness ==
    /\ Returned /\ mode = "Capture"
    /\ Len(calls) > 0
    /\ calls[Len(calls)].fn = "openPipe"
    /\ err = <<"unable to open pipe", "no such file or directory">>


(* C13: the options mapping passed to StartCapture has an entry, keyed by  *)
(* flag name, for every flag of the schema other than extcap-interface,    *)
(* fifo and extcap-capture-filter; a flag that was not given on the        *)
(* command line, such as a declared configuration option, is there with    *)
(* its default value.                                                      *)
C13_EveryRecognizedFlag ==
    \A i \in 1..Len(calls) :
        calls[i].fn = "StartCapture" =>
            LET opts == calls[i].arg[4]
            IN  \A n \in FlagNamesOf(flags) \ {"extcap-interface", "fifo", "extcap-capture-filter"} :
                   /\ n \in DOMAIN opts
                   /\ n \notin Given(arguments) => opts[n] = FlagNamed(flags, n).Value

\* the case of a declared option left out of the command line: the mapping
\* StartCapture receives has no entry for it
C13_DeclaredOptionMissing ==
    /\ Len(calls) > 0
    /\ calls[Len(calls)].fn = "StartCapture"
    /\ extapp.GetAllConfigOptions.opts = <<OptVerboseInt>>
    /\ arguments["verbose"] = Absent
    /\ "verbose" \notin DOMAIN calls[Len(calls)].arg[4]


\* the capture callback closed the handle it was given
ClosedByCallback ==
    \E i \in 1..Len(calls) : calls[i].fn = "StartCapture" /\ calls[i].ret = <<TRUE>>

(* C14: the dispatcher never closes the handle the pipe opener returned:   *)
(* it is open when StartCapture is called, and afterwards, whether         *)
(* StartCapture returned an error or not, it is closed only if the         *)
(* callback closed it.                                                     *)
C14_DispatcherNeverCloses ==
    /\ pipe.closed <=> ClosedByCallback
    /\ pc = "startCapture" => pipe.opened /\ ~pipe.closed
    /\ \A i \in 1..Len(calls) :
          calls[i].fn = "StartCapture" => calls[i].arg[2].opened /\ ~calls[i].arg[2].closed

C14_Witness ==
    /\ pc = "exit"
    /\ Len(calls) > 0
    /\ calls[Len(calls)].fn = "StartCapture"
    /\ calls[Len(calls)].err # NilErr
    /\ calls[Len(calls)].ret = <<FALSE>>
    /\ pipe.opened /\ ~pipe.closed


\* --extcap-capture-filter is given, and none of the four mode flags
OnlyFilterGiven ==
    /\ arguments["extcap-capture-filter"] # Absent
    /\ Given(arguments) \cap {"extcap-interfaces", "extcap-dlts", "extcap-config", "capture"} = {}

(* C15: with --extcap-capture-filter set and none of --extcap-interfaces,  *)
(* --extcap-dlts, --extcap-config, --capture, the dispatcher ends the      *)
(* process at once with success status, for every filter text (also one    *)
(* that is no filter expression): nothing is printed, no callback is       *)
(* invoked, no error is reported.  When one of the four mode flags is set  *)
(* too, that early exit never happens.                                     *)
C15_FilterValidation ==
    /\ (OnlyFilterGiven /\ mode # "none")
       => /\ mode = "CaptureFilterValidation"
          /\ pc = "exit"
          /\ status = ExitSuccess
          /\ stdout = <<>> /\ stderr = <<>> /\ err = NilErr
          /\ CalledFns \cap (DispatchCallbacks \cup PipeOpeners) = {}
    /\ mode = "CaptureFilterValidation" => OnlyFilterGiven

C15_Witness ==
    /\ mode = "CaptureFilterValidation"
    /\ pc = "exit"
    /\ status = ExitSuccess
    /\ arguments["extcap-capture-filter"] = "(("
    /\ arguments["extcap-interface"] = "eth0"


\* the callbacks whose errors the dispatcher hands on
DomainCallbacks == {"GetInterfaces", "GetDLT", "GetConfigOptions", "StartCapture"}

(* C16: an error returned by GetInterfaces, GetDLT, GetConfigOptions or    *)
(* StartCapture is the error mainAction returns, the same value with       *)
(* nothing wrapped around it, and the callback that failed was invoked     *)
(* once: it is the last call of the invocation and no earlier call is to   *)
(* the same callback.                                                      *)
C16_ErrorsVerbatim ==
    \A i \in 1..Len(calls) :
        (calls[i].fn \in DomainCallbacks /\ calls[i].err # NilErr)
        => /\ i = Len(calls)
           /\ pc \in {"appReturned", "exit"}
           /\ err = calls[i].err
           /\ err \in CallbackErrors
           /\ \A j \in 1..Len(calls) : j # i => calls[j].fn # calls[i].fn

C16_Witness ==
    /\ pc = "exit"
    /\ Len(calls) = 2
    /\ calls[1].fn = "openPipe"
    /\ calls[2].fn = "StartCapture"
    /\ calls[2].err = <<"device busy">>
    /\ err = <<"device busy">>


(* C17: when dispatch ends in an error (a missing interface or pipe, a     *)
(* callback error, a pipe-open error) the process ends with a non-zero     *)
(* status and that error, and nothing else, was written to standard        *)
(* error; when dispatch succeeds the process ends with status 0 and        *)
(* nothing on standard error.  Nothing is reported before mainAction has   *)
(* returned.                                                               *)
C17_ExitStatus ==
    mode # "none" =>
       /\ pc = "exit" =>
             IF err # NilErr
             THEN status = ExitFailure /\ stderr = <<err>>
             ELSE status = ExitSuccess /\ stderr = <<>>
       /\ pc # "exit" => stderr = <<>>

C17_Witness ==
    /\ pc = "exit"
    /\ mode = "Capture"
    /\ err = ErrNoPipeProvided
    /\ status = ExitFailure
    /\ stderr = <<ErrNoPipeProvided>>


\* the opener the dispatcher must use: the caller's when registered
ExpectedOpener == IF extapp.OpenPipe THEN "OpenPipe" ELSE "openPipe"

(* C18: the Capture branch tests --extcap-interface and then --fifo (both  *)
(* missing: ErrNoInterfaceSpecified, and --fifo is not looked at), has     *)
(* the options mapping built before any opener runs, calls one opener      *)
(* once with the --fifo path (the caller's OpenPipe when registered, else  *)
(* the default, never both), and calls StartCapture once, right after the  *)
(* opener returned without error, with the handle that opener returned.    *)
C18_CaptureOrder ==
    /\ (mode = "Capture" /\ ~InterfaceGiven)
       => /\ err = ErrNoInterfaceSpecified
          /\ \A k \in 1..Len(queried) : queried[k] # "fifo"
    /\ \A k \in 1..Len(queried) :
          queried[k] = "fifo" => k = Len(queried) /\ queried[k - 1] = "extcap-interface"
    /\ pc = "openPipe"
       => /\ CalledFns \cap (PipeOpeners \cup {"StartCapture"}) = {}
          /\ cap.fifo = arguments["fifo"]
          /\ "capture" \in DOMAIN cap.opts
    /\ \A i \in 1..Len(calls) :
          /\ calls[i].fn \in PipeOpeners
             => /\ calls[i].fn = ExpectedOpener
                /\ calls[i].arg = <<arguments["fifo"]>>
                /\ \A j \in 1..Len(calls) : calls[j].fn \in PipeOpeners => j = i
          /\ calls[i].fn = "StartCapture"
             => /\ i > 1
                /\ calls[i - 1].fn = ExpectedOpener
                /\ calls[i - 1].err = NilErr
                /\ calls[i].arg[2] = calls[i - 1].ret[1]
                /\ calls[i].arg[2].path = arguments["fifo"]
                /\ calls[i].arg[4] = cap.opts
                /\ \A j \in 1..Len(calls) : calls[j].fn = "StartCapture" => j = i

C18_Witness ==
    /\ pc = "exit"
    /\ status = ExitSuccess
    /\ Len(calls) = 3
    /\ calls[1].fn = "GetAllConfigOptions"
    /\ calls[2].fn = "OpenPipe"
    /\ calls[3].fn = "StartCapture"
    /\ calls[3].arg[2].by = "OpenPipe"
    /\ err = NilErr


(* C19: whenever mainAction returns an error (no interface, no pipe, a     *)
(* pipe-open failure, a callback failure) it has written no line to        *)
(* standard output: no version line when GetInterfaces fails, no option    *)
(* line when GetConfigOptions fails.                                       *)
C19_NoOutputOnError ==
    /\ (Returned /\ err # NilErr) => stdout = <<>>
    /\ \A i \in 1..Len(calls) :
          (calls[i].fn \in {"GetInterfaces", "GetConfigOptions"} /\ calls[i].err # NilErr)
          => stdout = <<>>

C19_Witness ==
    /\ Returned
    /\ mode = "ListInterfaces"
    /\ Len(calls) > 0
    /\ calls[Len(calls)].fn = "GetInterfaces"
    /\ calls[Len(calls)].err # NilErr
    /\ err = calls[Len(calls)].err
    /\ stdout = <<>>

\* none of the five flags that select a mode is given
NoModeFlagGiven ==
    Given(arguments) \cap {"extcap-interfaces", "extcap-dlts", "extcap-config", "capture",
                           "extcap-capture-filter"} = {}

(* C20: with none of --extcap-interfaces, --extcap-dlts, --extcap-config,  *)
(* --capture, --extcap-capture-filter set (whether or not                  *)
(* --extcap-interface, --fifo, --extcap-version are), the dispatcher       *)
(* prints the help text and nothing else, invokes no callback and no pipe  *)
(* opener, and returns no error; the process ends with success status.     *)
C20_Help ==
    (NoModeFlagGiven /\ mode # "none")
    => /\ mode = "Help"
       /\ pc \in {"appReturned", "exit"}
       /\ stdout = << <<"help">> >>
       /\ CalledFns \cap (DispatchCallbacks \cup PipeOpeners) = {}
       /\ err = NilErr
       /\ pc = "exit" => status = ExitSuccess /\ stderr = <<>>

C20_Witness ==
    /\ pc = "exit"
    /\ mode = "Help"
    /\ arguments["extcap-interface"] = "eth0"
    /\ arguments["fifo"] = "/tmp/p"
    /\ arguments["extcap-version"] = "4.0"
    /\ stdout = << <<"help">> >>
    /\ status = ExitSuccess

====
